---- MODULE Spec2Model ----
(***************************************************************************)
(* A model of the Roam Research command-line scripts:                      *)
(*   - the block-tree reader of read-content.js (fetchChildren,            *)
(*     buildBlockTree, readPage), specification SpecTree;                  *)
(*   - the HTTPS request helper shared by the three scripts                *)
(*     (makeHttpsRequest / makeRoamRequest), specification SpecSend.       *)
(***************************************************************************)
EXTENDS Integers, Sequences, FiniteSets, TLC

(***************************************************************************)
(* Bounds of the model.                                                    *)
(***************************************************************************)
\* buildBlockTree is started with maxDepth in 0..MaxDepthBound
MaxDepthBound == 3
\* :block/order values the remote service answers with are 0..MaxOrder
MaxOrder == 1
\* a traversal is followed for at most MaxFetches fetchChildren requests
MaxFetches == 3

\* a response body is followed for at most MaxBody chunks
MaxBody == 3

\* the uid of the page whose tree is read, and the uids of the blocks the
\* remote service knows (a block may be reported as its own descendant)
PageUid == "page"
UIDs == {"a", "b"}
Strings == {"text"}
Orders == 0..MaxOrder
\* the failures a fetchChildren request can end in (the rejections of
\* makeHttpsRequest, as main prints them)
FetchErrors == {"HTTP 500", "Request timeout"}

VARIABLES
  \* ---- read-content.js: buildBlockTree ----
  maxDepth,   \* the maxDepth argument of the traversal
  tpc,        \* "init" | "fetching" | "done" | "failed" | "crashed"
  stack,      \* the activations of buildBlockTree that wait on an await
  fetchLog,   \* the fetchChildren requests issued so far, in order
  failures,   \* the errors fetchChildren was rejected with, in order
  abandoned,  \* the activations that were waiting when the traversal failed
  result,     \* what the caller of buildBlockTree received
  output      \* what readPage / main wrote, and the exit status

treeVars == <<maxDepth, tpc, stack, fetchLog, failures, abandoned, result, output>>

VARIABLES
  \* ---- makeHttpsRequest / makeRoamRequest: one call ----
  req,        \* per hop (1: req, 2: redirectReq): state, status code, data
  issued,     \* the options of the https.request calls made, in order
  promise,    \* the promise the helper returned
  calls,      \* every resolve(...) and reject(...) the listeners made, in order
  hangUp,     \* hops whose destroy() has an 'error' event still to come
  uncaught    \* the exception that escaped a listener and ended node, if any

sendVars == <<req, issued, promise, calls, hangUp, uncaught>>

\* the clock of one timed call of the request helper
VARIABLES
  now,        \* ticks since the call was made
  idle        \* ticks since the socket of the request was last active
timeVars == <<now, idle>>

\* one run of create-pages.js or of write-content.js
VARIABLES
  script,       \* which of the two scripts runs
  env,          \* whether ROAM_GRAPH_NAME and ROAM_API_TOKEN are set
  options,      \* what parseArgs and the readers of the input produced
  uniqueTitles, \* create-pages: the titles the loop goes over
  contentLines, \* write-content: the lines the loop goes over
  pageUid,      \* write-content: the uid ensurePageAndGetUid returned
  cursor,       \* the position of the loop
  results,      \* the lists of created / skipped / written / failed items
  sent,         \* the requests the run has issued, in order
  spc,          \* where main is
  exitStatus    \* the exit status, once spc = "exited"
scriptVars == <<script, env, options, uniqueTitles, contentLines, pageUid, cursor,
                results, sent, spc, exitStatus>>

\* one call of getTodayRoamTitle, and the graph the scripts write to
VARIABLES
  today,        \* the date new Date() gives: getMonth(), getDate(), getFullYear()
  roamTitle,    \* what getTodayRoamTitle returned
  pageInGraph   \* whether the target page of write-content exists in the graph
worldVars == <<today, roamTitle, pageInGraph>>

vars == <<treeVars, sendVars, timeVars, scriptVars, worldVars>>

\* what the reader of the tree, the request helper and the scripts leave alone
besidesTree == <<sendVars, timeVars, scriptVars, worldVars>>
besidesSend == <<treeVars, timeVars, scriptVars, worldVars>>
besidesScript == <<treeVars, sendVars, timeVars, worldVars>>

(***************************************************************************)
(* fetchChildren: the rows of the query, mapped to objects and sorted.     *)
(***************************************************************************)
\* a row [uid, string, order] of the query result
Rows == [uid : UIDs, string : Strings, order : Orders]

\* what the remote service may answer to one children query: the children
\* of one parent are distinct blocks, returned in any sequence
Responses ==
  {r \in UNION {[1..n -> Rows] : n \in 0..Cardinality(UIDs)} :
     \A i, j \in DOMAIN r : i # j => r[i].uid # r[j].uid}

\* the comparator (a, b) => a.order - b.order
CompareOrder(a, b) == a.order - b.order

\* Array.prototype.sort is stable: a row goes in front of the first row
\* that compares greater
RECURSIVE InsertSorted(_, _)
InsertSorted(row, sorted) ==
  IF sorted = <<>> THEN <<row>>
  ELSE IF CompareOrder(Head(sorted), row) > 0 THEN <<row>> \o sorted
  ELSE <<Head(sorted)>> \o InsertSorted(row, Tail(sorted))

RECURSIVE SortPrefix(_, _)
SortPrefix(rows, n) ==
  IF n = 0 THEN <<>> ELSE InsertSorted(rows[n], SortPrefix(rows, n - 1))

\* a fetchChildren that hands the rows on as the service returned them
FetchChildrenUnsorted(rows) == rows

\* fetchChildren's return value for the rows runQuery returned
FetchChildrenResult(rows) == SortPrefix(rows, Len(rows))

IsSortedByOrder(s) == \A i \in 1..(Len(s) - 1) : s[i].order <= s[i + 1].order

(***************************************************************************)
(* buildBlockTree                                                          *)
(***************************************************************************)
\* buildBlockTree(config, parentUid, depth = 0, maxDepth = 10)
DefaultMaxDepth == 10

\* the base case tested with > instead of >=
AtMaxDepthOffByOne(depth, md) == depth > md

\* a maxDepth of 0 taken for "not given" (maxDepth || 10)
AtMaxDepthZeroUnset(depth, md) == depth >= (IF md = 0 THEN DefaultMaxDepth ELSE md)

\* a traversal without the test of the depth
AtMaxDepthNever(depth, md) == FALSE

\* if (depth >= maxDepth) return [];
AtMaxDepth(depth, md) == depth >= md

\* an activation of buildBlockTree waiting on an await: in its fetch while
\* tpc = "fetching" and it is the top of the stack, else in the recursive
\* call for children[i]
NewFrame(uid, depth) ==
  [parentUid |-> uid, depth |-> depth, children |-> <<>>, i |-> 1, blocks |-> <<>>]

\* the object pushed on blocks for a child and its subtree
Node(child, subChildren) ==
  [uid |-> child.uid, string |-> child.string, order |-> child.order,
   children |-> subChildren]

Top(stk) == stk[Len(stk)]
Pop(stk) == SubSeq(stk, 1, Len(stk) - 1)
WithTop(stk, f) == [stk EXCEPT ![Len(stk)] = f]

\* Resume(stk, md): the top activation runs its for loop from children[i]
\* on, until a fetch is issued (the next await that waits on the network)
\* or the outermost activation returns.
\* Return(stk, blocks, md): an activation returned blocks to the one below.
RECURSIVE Resume(_, _)
RECURSIVE Return(_, _, _)
\* a loop that pushes the node of a child before the recursive call for it
\* has been awaited
ResumeNoAwait(stk, md) ==
  LET f == Top(stk) IN
  IF f.i > Len(f.children)
  THEN Return(Pop(stk), f.blocks, md)
  ELSE LET child == f.children[f.i] IN
       IF AtMaxDepth(f.depth + 1, md)
       THEN Return(stk, <<>>, md)
       ELSE [status |-> "fetching",
             stack |-> Append(WithTop(stk, [f EXCEPT !.blocks = Append(@, Node(child, <<>>))]),
                              NewFrame(child.uid, f.depth + 1)),
             blocks |-> <<>>]

Resume(stk, md) ==
  LET f == Top(stk) IN
  IF f.i > Len(f.children)
  THEN Return(Pop(stk), f.blocks, md)
  ELSE LET child == f.children[f.i] IN
       IF AtMaxDepth(f.depth + 1, md)
       THEN Return(stk, <<>>, md)
       ELSE [status |-> "fetching",
             stack |-> Append(stk, NewFrame(child.uid, f.depth + 1)),
             blocks |-> <<>>]

Return(stk, blocks, md) ==
  IF stk = <<>>
  THEN [status |-> "done", stack |-> <<>>, blocks |-> blocks]
  ELSE LET f == Top(stk) IN
       Resume(WithTop(stk, [f EXCEPT !.blocks = Append(@, Node(f.children[f.i], blocks)),
                                     !.i = @ + 1]), md)

\* a rejected fetch that a try/catch around the loop body would turn into
\* an empty list of children
RejectSwallowed(stk, err, md) ==
  LET r == Resume(WithTop(stk, [Top(stk) EXCEPT !.children = <<>>]), md) IN
  [status |-> r.status, stack |-> r.stack,
   result |-> IF r.status = "done" THEN [kind |-> "ok", blocks |-> r.blocks]
              ELSE [kind |-> "none"]]

\* a rejected fetch caught at the top, which hands back the blocks built so far
RejectPartial(stk, err, md) ==
  [status |-> "done", stack |-> <<>>, result |-> [kind |-> "ok", blocks |-> stk[1].blocks]]

\* the rejection of an awaited fetchChildren: no activation has a try/catch,
\* so every waiting activation is rejected with the same error
RejectAll(stk, err, md) ==
  [status |-> "failed", stack |-> <<>>, result |-> [kind |-> "error", error |-> err]]

NoResult == [kind |-> "none"]
NoOutput == [kind |-> "none"]

\* one entry of fetchLog
LogEntry(uid, depth) ==
  [uid |-> uid, depth |-> depth, answer |-> "pending", rows |-> 0, inOrder |-> TRUE]

InFlight == {k \in DOMAIN fetchLog : fetchLog[k].answer = "pending"}

(***************************************************************************)
(* Actions of the traversal                                                *)
(***************************************************************************)
TreeInit ==
  /\ maxDepth \in 0..MaxDepthBound
  /\ tpc = "init"
  /\ stack = <<>>
  /\ fetchLog = <<>>
  /\ failures = <<>>
  /\ abandoned = <<>>
  /\ result = NoResult
  /\ output = NoOutput

\* readPage calls buildBlockTree(config, uid, 0, maxDepth)
CallBuildBlockTree ==
  /\ tpc = "init"
  /\ IF AtMaxDepth(0, maxDepth)
     THEN /\ tpc' = "done"
          /\ result' = [kind |-> "ok", blocks |-> <<>>]
          /\ UNCHANGED <<stack, fetchLog>>
     ELSE /\ tpc' = "fetching"
          /\ stack' = <<NewFrame(PageUid, 0)>>
          /\ fetchLog' = <<LogEntry(PageUid, 0)>>
          /\ UNCHANGED result
  /\ UNCHANGED <<maxDepth, failures, abandoned, output>>

\* the awaited fetchChildren resolves with the rows of the query
FetchResolves ==
  /\ tpc = "fetching"
  /\ \E rows \in Responses :
       LET f == Top(stack)
           sorted == FetchChildrenResult(rows)
           r == Resume(WithTop(stack, [f EXCEPT !.children = sorted]), maxDepth)
           answered == [fetchLog EXCEPT ![Len(fetchLog)] =
                          [@ EXCEPT !.answer = "rows", !.rows = Len(rows),
                                    !.inOrder = IsSortedByOrder(rows)]]
       IN /\ tpc' = r.status
          /\ stack' = r.stack
          /\ IF r.status = "fetching"
             THEN /\ Len(fetchLog) < MaxFetches
                  /\ fetchLog' = Append(answered,
                                        LogEntry(Top(r.stack).parentUid, Top(r.stack).depth))
                  /\ UNCHANGED result
             ELSE /\ fetchLog' = answered
                  /\ result' = [kind |-> "ok", blocks |-> r.blocks]
  /\ UNCHANGED <<maxDepth, failures, abandoned, output>>

\* the awaited fetchChildren is rejected (makeHttpsRequest rejected)
FetchRejects ==
  /\ tpc = "fetching"
  /\ \E err \in FetchErrors :
       LET r == RejectAll(stack, err, maxDepth)
           answered == [fetchLog EXCEPT ![Len(fetchLog)] = [@ EXCEPT !.answer = "error"]]
       IN /\ tpc' = r.status
          /\ stack' = r.stack
          /\ result' = r.result
          /\ failures' = Append(failures, err)
          /\ abandoned' = IF failures = <<>> THEN stack ELSE abandoned
          /\ IF r.status = "fetching"
             THEN /\ Len(fetchLog) < MaxFetches
                  /\ fetchLog' = Append(answered,
                                        LogEntry(Top(r.stack).parentUid, Top(r.stack).depth))
             ELSE fetchLog' = answered
  /\ UNCHANGED <<maxDepth, output>>

\* the awaited request dies on an exception thrown inside a listener of
\* makeHttpsRequest (JSON.parse, new URL): nothing catches it, node ends
FetchCrashes ==
  /\ tpc = "fetching"
  /\ tpc' = "crashed"
  /\ stack' = <<>>
  /\ fetchLog' = [fetchLog EXCEPT ![Len(fetchLog)] = [@ EXCEPT !.answer = "crash"]]
  /\ output' = [kind |-> "uncaught", exit |-> 1]
  /\ UNCHANGED <<maxDepth, failures, abandoned, result>>

\* readPage writes the page, or main's catch writes the fatal error
ReadPageOutput ==
  /\ output = NoOutput
  /\ \/ /\ tpc = "done"
        /\ output' = [kind |-> "page", blocks |-> result.blocks, exit |-> 0]
     \/ /\ tpc = "failed"
        /\ output' = [kind |-> "fatal", error |-> result.error, exit |-> 1]
  /\ UNCHANGED <<maxDepth, tpc, stack, fetchLog, failures, abandoned, result>>

NextTree ==
  \/ CallBuildBlockTree /\ UNCHANGED besidesTree
  \/ FetchResolves /\ UNCHANGED besidesTree
  \/ FetchRejects /\ UNCHANGED besidesTree
  \/ FetchCrashes /\ UNCHANGED besidesTree
  \/ ReadPageOutput /\ UNCHANGED besidesTree

(***************************************************************************)
(* makeHttpsRequest (read-content.js, write-content.js) and                *)
(* makeRoamRequest (create-pages.js): the three copies differ only in how  *)
(* the options of the redirect hop are written down.                       *)
(***************************************************************************)
Hops == {1, 2}

\* status codes the remote peer may answer with
Statuses == {200, 204, 300, 301, 302, 303, 304, 307, 308, 404, 500}

\* The chunks a body arrives in. A body is the sequence of its chunks; the
\* member text "result":[] is one chunk.
Chunks == {"{", "}", "\"result\":[]", "x"}

\* JSON.parse on a body: the texts {} and {"result":[]} are the JSON texts
\* over Chunks; every other text makes JSON.parse throw a SyntaxError.
JsonParse(text) ==
  IF Len(text) >= 2 /\ text[1] = "{" /\ text[Len(text)] = "}"
  THEN LET members == SubSeq(text, 2, Len(text) - 1) IN
       IF members = <<>> THEN [ok |-> TRUE, value |-> [type |-> "object", keys |-> {}]]
       ELSE IF members = <<"\"result\":[]">>
       THEN [ok |-> TRUE, value |-> [type |-> "object", keys |-> {"result"}, result |-> <<>>]]
       ELSE [ok |-> FALSE, throws |-> "SyntaxError"]
  ELSE [ok |-> FALSE, throws |-> "SyntaxError"]

\* the literal {} of `data ? JSON.parse(data) : {}`
EmptyObject == [type |-> "object", keys |-> {}]

\* the Location header of a response: absent, a relative reference, or an
\* absolute URL (given by its parts)
Locations ==
  { [kind |-> "absent"],
    [kind |-> "relative", pathname |-> "/path2"],
    [kind |-> "absolute", hostname |-> "host2", port |-> "", pathname |-> "/path2", search |-> ""],
    [kind |-> "absolute", hostname |-> "host3", port |-> "8443", pathname |-> "/p", search |-> "?a=1"] }

\* new URL(res.headers.location): a TypeError unless the text is an absolute URL
NewURL(loc) ==
  IF loc.kind = "absolute"
  THEN [ok |-> TRUE, hostname |-> loc.hostname, port |-> loc.port,
        pathname |-> loc.pathname, search |-> loc.search]
  ELSE [ok |-> FALSE, throws |-> "TypeError"]

\* timeout = 30000
RequestTimeoutMs == 30000

\* the timeout in ticks of the clock, and the last tick of the clock
TimeoutTicks == 2
MaxTime == 5

\* the headers and the payload of the call
RequestHeaders ==
  [contentType |-> "application/json", contentLength |-> "len(payload)",
   authorization |-> "Bearer token", accept |-> "application/json"]
Payload == "payload"

\* the options runQuery / createPage / createBlock / makeRoamRequest build
FirstOptions ==
  [hostname |-> "api.roamresearch.com", port |-> "443", path |-> "/api/graph/g/q",
   method |-> "POST", headers |-> RequestHeaders, timeout |-> RequestTimeoutMs,
   payload |-> Payload]

\* a redirect hop made the way a browser follows a 301 or 302: as a GET
\* without the payload
RedirectOptionsAsGet(url, opts) ==
  [hostname |-> url.hostname,
   port |-> IF url.port = "" THEN "443" ELSE url.port,
   path |-> url.pathname \o url.search,
   method |-> "GET", headers |-> opts.headers, timeout |-> RequestTimeoutMs,
   payload |-> ""]

\* redirectOpts, for the parsed Location url and the options opts of the
\* first request
RedirectOptions(url, opts) ==
  [hostname |-> url.hostname,
   port |-> IF url.port = "" THEN "443" ELSE url.port,
   path |-> url.pathname \o url.search,
   method |-> opts.method, headers |-> opts.headers, timeout |-> RequestTimeoutMs,
   payload |-> opts.payload]

\* a response test that follows every 3xx status
IsRedirectStatusAny3xx(status) == status \in 300..399

\* a response test that also re-issues the request after a server error
IsRedirectOrServerError(status) == status \in {301, 302, 308, 500}

\* res.statusCode === 301 || res.statusCode === 302 || res.statusCode === 308
IsRedirectStatus(status) == status \in {301, 302, 308}

\* the values a promise is settled with
Fulfilled(v) == [state |-> "fulfilled", value |-> v]
Rejected(e) == [state |-> "rejected", reason |-> e]
Pending == [state |-> "pending"]

\* new Error('Request timeout'), and the error of an 'error' event
TimeoutError == [name |-> "Error", message |-> "Request timeout"]
TransportError(cause) == [name |-> "Error", message |-> cause]
TransportCauses == {"ECONNRESET", "ENOTFOUND"}
SocketHangUp == "socket hang up"

\* resolve / reject settle a pending promise; on a settled one they do nothing
Settle(p, outcome) == IF p.state = "pending" THEN outcome ELSE p

\* an 'end' listener that resolves every status below 400
EndOutcomeLenient(status, data) ==
  IF status < 400
  THEN IF data = <<>> THEN [throws |-> "none", settle |-> Fulfilled([statusCode |-> status, data |-> EmptyObject])]
       ELSE IF JsonParse(data).ok
       THEN [throws |-> "none", settle |-> Fulfilled([statusCode |-> status, data |-> JsonParse(data).value])]
       ELSE [throws |-> JsonParse(data).throws]
  ELSE [throws |-> "none", settle |-> Rejected([statusCode |-> status, message |-> data])]

\* an 'end' listener that hands the body on unparsed
EndOutcomeRaw(status, data) ==
  IF status = 200
  THEN [throws |-> "none",
        settle |-> Fulfilled([statusCode |-> status, data |-> [type |-> "string", text |-> data]])]
  ELSE [throws |-> "none", settle |-> Rejected([statusCode |-> status, message |-> data])]

\* an 'end' listener that parses the body even when it is empty
EndOutcomeAlwaysParse(status, data) ==
  IF status = 200
  THEN IF JsonParse(data).ok
       THEN [throws |-> "none", settle |-> Fulfilled([statusCode |-> status, data |-> JsonParse(data).value])]
       ELSE [throws |-> JsonParse(data).throws]
  ELSE [throws |-> "none", settle |-> Rejected([statusCode |-> status, message |-> data])]

\* an 'end' listener that rejects a failed response with a message of its
\* own in place of the body
EndOutcomeOwnMessage(status, data) ==
  IF status = 200
  THEN IF data = <<>>
       THEN [throws |-> "none", settle |-> Fulfilled([statusCode |-> status, data |-> EmptyObject])]
       ELSE IF JsonParse(data).ok
       THEN [throws |-> "none", settle |-> Fulfilled([statusCode |-> status, data |-> JsonParse(data).value])]
       ELSE [throws |-> JsonParse(data).throws]
  ELSE [throws |-> "none", settle |-> Rejected([statusCode |-> status, message |-> <<"HTTP error">>])]

\* the 'end' listener of res and of redirectRes: what it calls, or what it throws
EndOutcome(status, data) ==
  IF status = 200
  THEN IF data = <<>>
       THEN [throws |-> "none", settle |-> Fulfilled([statusCode |-> status, data |-> EmptyObject])]
       ELSE IF JsonParse(data).ok
       THEN [throws |-> "none", settle |-> Fulfilled([statusCode |-> status, data |-> JsonParse(data).value])]
       ELSE [throws |-> JsonParse(data).throws]
  ELSE [throws |-> "none", settle |-> Rejected([statusCode |-> status, message |-> data])]

\* a 'timeout' listener that destroys the request and rejects nothing
TimeoutRejectsNothing == <<>>

\* what the 'timeout' listener calls after req.destroy():
\* reject(new Error('Request timeout'))
TimeoutRejects == <<Rejected(TimeoutError)>>

\* the promise after the calls (resolve or reject) of one listener, in order
RECURSIVE SettleAll(_, _)
SettleAll(p, outcomes) ==
  IF outcomes = <<>> THEN p ELSE SettleAll(Settle(p, Head(outcomes)), Tail(outcomes))

NoStatus == 0
\* a request not made yet; location is the Location header of the response
\* that was followed
NoLocation == [kind |-> "absent"]
IdleRequest == [st |-> "none", status |-> NoStatus, data |-> <<>>, location |-> NoLocation]

SendIdle ==
  /\ req = [h \in Hops |-> IdleRequest]
  /\ issued = <<>>
  /\ promise = Pending
  /\ calls = <<>>
  /\ hangUp = {}
  /\ uncaught = "none"

\* the buildBlockTree variables while a single request is looked at
TreeIdle ==
  /\ maxDepth = DefaultMaxDepth
  /\ tpc = "init"
  /\ stack = <<>>
  /\ fetchLog = <<>>
  /\ failures = <<>>
  /\ abandoned = <<>>
  /\ result = NoResult
  /\ output = NoOutput

TimeIdle ==
  /\ now = 0
  /\ idle = 0

NoTitle == [month |-> "", day |-> 0, suffix |-> "", year |-> 0]

WorldIdle ==
  /\ today = [month |-> 10, day |-> 3, year |-> 2026]
  /\ roamTitle = NoTitle
  /\ pageInGraph = FALSE

NoResults == [created |-> <<>>, skipped |-> <<>>, written |-> <<>>, failed |-> <<>>]

ScriptIdle ==
  /\ script = "none"
  /\ env = FALSE
  /\ options = [dryRun |-> FALSE]
  /\ uniqueTitles = <<>>
  /\ contentLines = <<>>
  /\ pageUid = ""
  /\ cursor = 1
  /\ results = NoResults
  /\ sent = <<>>
  /\ spc = "none"
  /\ exitStatus = 0

\* node is running: no exception has escaped a listener
Running == uncaught = "none"

\* makeRequest(requestOptions): https.request, req.write(payload), req.end()
MakeRequest ==
  /\ Running
  /\ req[1].st = "none"
  /\ req' = [req EXCEPT ![1].st = "sent"]
  /\ issued' = <<FirstOptions>>
  /\ UNCHANGED <<promise, calls, hangUp, uncaught>>

\* the response callback of hop h runs: on hop 1 a redirect status issues
\* the second request and leaves the response unread, every other response
\* gets its 'data' and 'end' listeners
Response(h) ==
  /\ Running
  /\ req[h].st = "sent"
  /\ \E status \in Statuses, loc \in Locations :
       IF h = 1 /\ IsRedirectStatus(status)
       THEN LET url == NewURL(loc) IN
            IF url.ok
            THEN /\ req' = [req EXCEPT ![1].st = "redirected", ![1].status = status,
                                       ![1].location = loc, ![2].st = "sent"]
                 /\ issued' = Append(issued, RedirectOptions(url, issued[1]))
                 /\ UNCHANGED uncaught
            ELSE /\ req' = [req EXCEPT ![1].st = "redirected", ![1].status = status]
                 /\ uncaught' = url.throws
                 /\ UNCHANGED issued
       ELSE /\ req' = [req EXCEPT ![h].st = "receiving", ![h].status = status]
            /\ UNCHANGED <<issued, uncaught>>
  /\ UNCHANGED <<promise, calls, hangUp>>

\* a 'data' event: data += chunk
Data(h) ==
  /\ Running
  /\ req[h].st = "receiving"
  /\ Len(req[h].data) < MaxBody
  /\ \E chunk \in Chunks : req' = [req EXCEPT ![h].data = Append(@, chunk)]
  /\ UNCHANGED <<issued, promise, calls, hangUp, uncaught>>

\* the 'end' event of the response of hop h
End(h) ==
  /\ Running
  /\ req[h].st = "receiving"
  /\ LET o == EndOutcome(req[h].status, req[h].data) IN
       /\ req' = [req EXCEPT ![h].st = "ended"]
       /\ IF o.throws = "none"
          THEN /\ promise' = Settle(promise, o.settle)
               /\ calls' = Append(calls, o.settle)
               /\ UNCHANGED uncaught
          ELSE /\ uncaught' = o.throws
               /\ UNCHANGED <<promise, calls>>
  /\ UNCHANGED <<issued, hangUp>>

\* an 'error' event on the request of hop h (the socket failed): reject(err)
ErrorEvent(h) ==
  /\ Running
  /\ req[h].st \in {"sent", "receiving", "redirected"}
  /\ \E cause \in TransportCauses :
       /\ promise' = Settle(promise, Rejected(TransportError(cause)))
       /\ calls' = Append(calls, Rejected(TransportError(cause)))
  /\ req' = [req EXCEPT ![h].st = "errored"]
  /\ UNCHANGED <<issued, hangUp, uncaught>>

\* the 'timeout' event of hop h (the socket was idle for the timeout):
\* the request is destroyed and the promise rejected; a request destroyed
\* before any response emits 'error' (socket hang up) afterwards
Timeout(h) ==
  /\ Running
  /\ req[h].st \in {"sent", "receiving", "redirected"}
  /\ req' = [req EXCEPT ![h].st = "destroyed"]
  /\ promise' = SettleAll(promise, TimeoutRejects)
  /\ calls' = calls \o TimeoutRejects
  /\ hangUp' = IF req[h].st = "sent" THEN hangUp \cup {h} ELSE hangUp
  /\ UNCHANGED <<issued, uncaught>>

\* the 'error' event that follows the destroy() of the 'timeout' listener
HangUp(h) ==
  /\ Running
  /\ h \in hangUp
  /\ hangUp' = hangUp \ {h}
  /\ promise' = Settle(promise, Rejected(TransportError(SocketHangUp)))
  /\ calls' = Append(calls, Rejected(TransportError(SocketHangUp)))
  /\ UNCHANGED <<req, issued, uncaught>>

\* the peer closes the connection in the middle of the body: the response
\* is aborted; the response has no 'aborted' or 'error' listener
PrematureClose(h) ==
  /\ Running
  /\ req[h].st = "receiving"
  /\ req' = [req EXCEPT ![h].st = "aborted"]
  /\ UNCHANGED <<issued, promise, calls, hangUp, uncaught>>

InitSend == SendIdle /\ TreeIdle /\ TimeIdle /\ ScriptIdle /\ WorldIdle

NextSend ==
  \/ MakeRequest /\ UNCHANGED besidesSend
  \/ \E h \in Hops :
       \/ Response(h) /\ UNCHANGED besidesSend
       \/ Data(h) /\ UNCHANGED besidesSend
       \/ End(h) /\ UNCHANGED besidesSend
       \/ ErrorEvent(h) /\ UNCHANGED besidesSend
       \/ Timeout(h) /\ UNCHANGED besidesSend
       \/ HangUp(h) /\ UNCHANGED besidesSend
       \/ PrematureClose(h) /\ UNCHANGED besidesSend

SpecSend == InitSend /\ [][NextSend]_vars

InitTree == TreeInit /\ SendIdle /\ TimeIdle /\ ScriptIdle /\ WorldIdle

SpecTree == InitTree /\ [][NextTree]_vars

(***************************************************************************)
(* One call that is not redirected, with a clock.  The `timeout` option    *)
(* of https.request arms the idle timer of the socket: every activity of   *)
(* the socket (the response headers, a chunk of the body) restarts it, and *)
(* the 'timeout' event is emitted when the socket has been idle for the    *)
(* timeout.  The clock ticks while the request is in progress and the      *)
(* idle timer has not run out.                                             *)
(***************************************************************************)
InProgress == req[1].st \in {"sent", "receiving"}

Tick ==
  /\ Running
  /\ InProgress
  /\ idle < TimeoutTicks
  /\ now < MaxTime
  /\ now' = now + 1
  /\ idle' = idle + 1
  /\ UNCHANGED <<treeVars, sendVars, scriptVars, worldVars>>

TimedMakeRequest == MakeRequest /\ now' = 0 /\ idle' = 0 /\ UNCHANGED <<treeVars, scriptVars, worldVars>>
TimedResponse ==
  /\ Response(1)
  /\ req'[1].st = "receiving"
  /\ idle' = 0
  /\ UNCHANGED <<now, treeVars, scriptVars, worldVars>>
TimedData == Data(1) /\ idle' = 0 /\ UNCHANGED <<now, treeVars, scriptVars, worldVars>>
TimedEnd == End(1) /\ UNCHANGED besidesSend
TimedTimeout == idle = TimeoutTicks /\ Timeout(1) /\ UNCHANGED besidesSend
TimedHangUp == HangUp(1) /\ UNCHANGED besidesSend
TimedErrorEvent == ErrorEvent(1) /\ UNCHANGED besidesSend
TimedPrematureClose == PrematureClose(1) /\ UNCHANGED besidesSend

NextTimed ==
  \/ TimedMakeRequest
  \/ Tick
  \/ TimedResponse
  \/ TimedData
  \/ TimedEnd
  \/ TimedTimeout
  \/ TimedHangUp
  \/ TimedErrorEvent
  \/ TimedPrematureClose

SpecTimed == InitSend /\ [][NextTimed]_vars

(***************************************************************************)
(* The scripts create-pages.js and write-content.js.  A run starts after   *)
(* parseArgs and the readers of the input; every awaited call of the       *)
(* request helper is one request, answered by one of the outcomes the      *)
(* helper has.                                                             *)
(***************************************************************************)
Scripts == {"create-pages", "write-content"}
Titles == {"A", "B"}
MaxTitles == 3
TitleLists == UNION {[1..n -> Titles] : n \in 0..MaxTitles}

\* the bodies of a failed response, as texts in pieces
BodyJsonExists == <<"{", "\"message\":", "\"Page already exists\"", "}">>
BodyJsonOtherMember == <<"{", "\"error\":", "\"Page already exists\"", "}">>
BodyJsonOtherMessage == <<"{", "\"message\":", "\"Invalid token\"", "}">>
BodyTextExists == <<"Page already exists">>
BodyNull == <<"null">>
BodyEmpty == <<>>
ErrorBodies ==
  {BodyJsonExists, BodyJsonOtherMember, BodyJsonOtherMessage, BodyTextExists, BodyNull, BodyEmpty}

\* text.includes('already exists')
IncludesAlreadyExists(text) ==
  \E i \in DOMAIN text : text[i] \in {"Page already exists", "\"Page already exists\""}

\* the string a JSON string literal of the model denotes
Unquote(literal) ==
  IF literal = "\"Page already exists\"" THEN "Page already exists" ELSE "Invalid token"

\* JSON.parse(error.message): an object with one string member, null, or a
\* SyntaxError
ParseErrorData(text) ==
  IF /\ Len(text) = 4
     /\ text[1] = "{"
     /\ text[2] \in {"\"message\":", "\"error\":"}
     /\ text[3] \in {"\"Page already exists\"", "\"Invalid token\""}
     /\ text[4] = "}"
  THEN [ok |-> TRUE, type |-> "object",
        message |-> IF text[2] = "\"message\":" THEN <<Unquote(text[3])>> ELSE <<>>]
  ELSE IF text = <<"null">>
  THEN [ok |-> TRUE, type |-> "null", message |-> <<>>]
  ELSE [ok |-> FALSE, type |-> "SyntaxError", message |-> <<>>]

\* what an awaited call of the request helper comes to: the promise is
\* fulfilled (status 200, parsed data), rejected with {statusCode, message},
\* rejected with an Error (timeout, connection), never settled, or an
\* exception escapes a listener of the helper.  statusCode 0 and the empty
\* message stand for members the value does not have.
Resolved(rows) ==
  [kind |-> "fulfilled", statusCode |-> 200, message |-> <<>>, result |-> rows]
HttpFailure(status, body) ==
  [kind |-> "http", statusCode |-> status, message |-> body, result |-> <<>>]
ErrorFailure(msg) ==
  [kind |-> "error", statusCode |-> 0, message |-> <<msg>>, result |-> <<>>]
UncaughtException == [kind |-> "uncaught", statusCode |-> 0, message |-> <<>>, result |-> <<>>]
NeverSettles == [kind |-> "never", statusCode |-> 0, message |-> <<>>, result |-> <<>>]
Awaiting == [kind |-> "awaiting", statusCode |-> 0, message |-> <<>>, result |-> <<>>]

FailureStatuses == {400, 500}
Rejections ==
  {HttpFailure(st, b) : st \in FailureStatuses, b \in ErrorBodies}
    \cup {ErrorFailure(m) : m \in {"Request timeout", "ECONNRESET"}}
WriteOutcomes == {Resolved(<<>>)} \cup Rejections \cup {UncaughtException, NeverSettles}

\* a create-block request that puts the block at the top of the page
RequestOrderFirst(action, title, parentUid, string) ==
  [action |-> action, title |-> title, parentUid |-> parentUid,
   order |-> IF action = "create-block" THEN "first" ELSE "",
   string |-> string, answer |-> Awaiting]

\* a request of a script
Request(action, title, parentUid, string) ==
  [action |-> action, title |-> title, parentUid |-> parentUid,
   order |-> IF action = "create-block" THEN "last" ELSE "",
   string |-> string, answer |-> Awaiting]

Answered(log, outcome) == [log EXCEPT ![Len(log)].answer = outcome]

\* a list that keeps every title
KeepDuplicates(titles) == titles

\* [...new Set(titles)]: a Set keeps the order of first insertion
RECURSIVE UniqueTitles(_)
UniqueTitles(titles) ==
  IF titles = <<>> THEN <<>>
  ELSE LET front == UniqueTitles(SubSeq(titles, 1, Len(titles) - 1))
           last == titles[Len(titles)]
       IN IF \E i \in DOMAIN front : front[i] = last THEN front ELSE Append(front, last)

\* the catch block of the loop of create-pages: the list the title goes to
\* and the error that is recorded with it
CatchCreatePage(error) ==
  IF error.statusCode # 0 /\ error.message # <<>>
  THEN LET errorData == ParseErrorData(error.message) IN
       IF errorData.ok /\ errorData.type = "object"
       THEN IF errorData.message # <<>> /\ IncludesAlreadyExists(errorData.message)
            THEN [list |-> "skipped", error |-> <<>>]
            ELSE [list |-> "failed", error |-> errorData.message]
       ELSE [list |-> "failed", error |-> error.message]
  ELSE [list |-> "failed",
        error |-> IF error.message # <<>> THEN error.message ELSE <<"Unknown error">>]

Exit(status) ==
  /\ spc' = "exited"
  /\ exitStatus' = status

\* a main that calls loadConfig before it looks at --dry-run
ConfigBeforeDryRun(dryRun, hasEnv) ==
  IF ~hasEnv THEN [exit |-> TRUE, status |-> 1]
  ELSE IF dryRun THEN [exit |-> TRUE, status |-> 0]
  ELSE [exit |-> FALSE, status |-> 0]

\* what main does between the input and the first request: with --dry-run
\* it prints the preview and calls process.exit(0); else loadConfig() calls
\* process.exit(1) unless both environment variables are set
BeforeRequests(dryRun, hasEnv) ==
  IF dryRun THEN [exit |-> TRUE, status |-> 0]
  ELSE IF ~hasEnv THEN [exit |-> TRUE, status |-> 1]
  ELSE [exit |-> FALSE, status |-> 0]


\* a loop that is left at the first item whose request failed
LoopStopsAtFailure(outcome, position, items) ==
  outcome.kind = "fulfilled" /\ position < Len(items)

\* for (const item of items) with the try/catch inside the body: whatever
\* the awaited request came to, the loop goes on while items are left
LoopGoesOn(outcome, position, items) == position < Len(items)

\* a summary that takes a skipped title for a failure
SummaryExitCountsSkipped(res) ==
  IF res.failed # <<>> \/ res.skipped # <<>> THEN 1 ELSE 0

\* if (results.failed.length > 0) process.exit(1); else main returns and
\* node ends with status 0
SummaryExit(res) == IF res.failed # <<>> THEN 1 ELSE 0

\* the outcome of a call that ends the run without a summary: an uncaught
\* exception ends node with status 1, a promise that is never settled
\* leaves main waiting
Dies(outcome) == outcome.kind \in {"uncaught", "never"}
Die(outcome) ==
  IF outcome.kind = "uncaught" THEN Exit(1)
  ELSE /\ spc' = "hung"
       /\ UNCHANGED exitStatus

(***************************************************************************)
(* create-pages.js                                                         *)
(***************************************************************************)
CreateOptions == [dryRun : BOOLEAN, titles : TitleLists]

\* main, up to the first awaited request
CreatePagesMain ==
  /\ script = "create-pages"
  /\ spc = "main"
  /\ IF options.titles = <<>>
     THEN /\ Exit(1)
          /\ UNCHANGED <<uniqueTitles, sent>>
     ELSE /\ uniqueTitles' = UniqueTitles(options.titles)
          /\ IF BeforeRequests(options.dryRun, env).exit
             THEN Exit(BeforeRequests(options.dryRun, env).status) /\ UNCHANGED sent
             ELSE /\ sent' = <<Request("create-page", uniqueTitles'[1], "", "")>>
                  /\ spc' = "create-page"
                  /\ UNCHANGED exitStatus
  /\ UNCHANGED <<script, env, options, contentLines, pageUid, cursor, results>>

\* a catch block that counts a skipped title as failed as well
CreatePageResultsSkippedFails(res, title, outcome) ==
  IF outcome.kind = "fulfilled"
  THEN [res EXCEPT !.created = Append(@, title)]
  ELSE LET c == CatchCreatePage(outcome) IN
       IF c.list = "skipped"
       THEN [res EXCEPT !.skipped = Append(@, title),
                        !.failed = Append(@, [item |-> title, error |-> c.error])]
       ELSE [res EXCEPT !.failed = Append(@, [item |-> title, error |-> c.error])]

\* results after the awaited makeRoamRequest for title came to outcome
CreatePageResults(res, title, outcome) ==
  IF outcome.kind = "fulfilled"
  THEN [res EXCEPT !.created = Append(@, title)]
  ELSE LET c == CatchCreatePage(outcome) IN
       IF c.list = "skipped"
       THEN [res EXCEPT !.skipped = Append(@, title)]
       ELSE [res EXCEPT !.failed = Append(@, [item |-> title, error |-> c.error])]

\* the awaited makeRoamRequest of the loop settles: the title is recorded,
\* and the loop issues the next request or main prints the summary and ends
MakeRoamRequestSettles ==
  /\ script = "create-pages"
  /\ spc = "create-page"
  /\ \E outcome \in WriteOutcomes :
       IF Dies(outcome)
       THEN /\ Die(outcome)
            /\ sent' = Answered(sent, outcome)
            /\ UNCHANGED <<cursor, results>>
       ELSE LET after == CreatePageResults(results, uniqueTitles[cursor], outcome) IN
            /\ results' = after
            /\ cursor' = cursor + 1
            /\ IF LoopGoesOn(outcome, cursor, uniqueTitles)
               THEN /\ sent' = Append(Answered(sent, outcome),
                                      Request("create-page", uniqueTitles[cursor + 1], "", ""))
                    /\ UNCHANGED <<spc, exitStatus>>
               ELSE /\ sent' = Answered(sent, outcome)
                    /\ Exit(SummaryExit(after))
  /\ UNCHANGED <<script, env, options, uniqueTitles, contentLines, pageUid>>


(***************************************************************************)
(* write-content.js                                                        *)
(***************************************************************************)
Lines == {"x", "y"}
MaxLines == 2
ContentLists == UNION {[1..n -> Lines] : n \in 0..MaxLines}
NoPage == ""
WriteOptions ==
  [dryRun : BOOLEAN, page : {NoPage, "A"}, today : BOOLEAN, content : ContentLists]

\* getTodayRoamTitle() on the day of the run
TodayTitle == "November 3rd, 2026"
PageTitle == IF options.today THEN TodayTitle ELSE options.page

FoundUid == "uid1"
QueryOutcomes ==
  {Resolved(<<>>), Resolved(<<FoundUid>>)} \cup Rejections \cup {UncaughtException, NeverSettles}

\* a queryPageUid that never finds the uid in the response
QueryPageUidResultNull(outcome) == ""

\* queryPageUid: result[0][0] of a response with rows, else null (here "")
QueryPageUidResult(outcome) ==
  IF outcome.result # <<>> THEN outcome.result[1] ELSE ""

\* main, up to the first awaited request (the query of ensurePageAndGetUid)
WriteContentMain ==
  /\ script = "write-content"
  /\ spc = "main"
  /\ IF (options.page = NoPage /\ ~options.today) \/ (options.page # NoPage /\ options.today)
     THEN /\ Exit(1)
          /\ UNCHANGED <<contentLines, sent>>
     ELSE /\ contentLines' = options.content
          /\ IF options.content = <<>>
             THEN Exit(1) /\ UNCHANGED sent
             ELSE IF BeforeRequests(options.dryRun, env).exit
             THEN Exit(BeforeRequests(options.dryRun, env).status) /\ UNCHANGED sent
             ELSE /\ sent' = <<Request("q", PageTitle, "", "")>>
                  /\ spc' = "query"
                  /\ UNCHANGED exitStatus
  /\ UNCHANGED <<script, env, options, uniqueTitles, pageUid, cursor, results>>

\* ensurePageAndGetUid returned uid: main enters the loop and issues the
\* create-block request for the first line
StartBlocks(uid, log) ==
  /\ pageUid' = uid
  /\ sent' = Append(log, Request("create-block", "", uid, contentLines[1]))
  /\ spc' = "create-block"
  /\ UNCHANGED exitStatus

\* the first queryPageUid of ensurePageAndGetUid settles
QueryPageUidSettles ==
  /\ script = "write-content"
  /\ spc = "query"
  /\ \E outcome \in QueryOutcomes :
       LET log == Answered(sent, outcome) IN
       IF Dies(outcome)
       THEN Die(outcome) /\ sent' = log /\ UNCHANGED pageUid
       ELSE IF outcome.kind # "fulfilled"
       THEN Exit(1) /\ sent' = log /\ UNCHANGED pageUid
       ELSE IF QueryPageUidResult(outcome) # ""
       THEN StartBlocks(QueryPageUidResult(outcome), log)
       ELSE /\ sent' = Append(log, Request("create-page", PageTitle, "", ""))
            /\ spc' = "create-page"
            /\ UNCHANGED <<pageUid, exitStatus>>
  /\ UNCHANGED <<script, env, options, uniqueTitles, contentLines, cursor, results>>

\* the createPage of ensurePageAndGetUid settles
CreatePageSettles ==
  /\ script = "write-content"
  /\ spc = "create-page"
  /\ \E outcome \in WriteOutcomes :
       LET log == Answered(sent, outcome) IN
       IF Dies(outcome)
       THEN Die(outcome) /\ sent' = log
       ELSE IF outcome.kind # "fulfilled"
       THEN Exit(1) /\ sent' = log
       ELSE /\ sent' = Append(log, Request("q", PageTitle, "", ""))
            /\ spc' = "requery"
            /\ UNCHANGED exitStatus
  /\ UNCHANGED <<script, env, options, uniqueTitles, contentLines, pageUid, cursor, results>>

\* the second queryPageUid of ensurePageAndGetUid settles
RequeryPageUidSettles ==
  /\ script = "write-content"
  /\ spc = "requery"
  /\ \E outcome \in QueryOutcomes :
       LET log == Answered(sent, outcome) IN
       IF Dies(outcome)
       THEN Die(outcome) /\ sent' = log /\ UNCHANGED pageUid
       ELSE IF outcome.kind # "fulfilled" \/ QueryPageUidResult(outcome) = ""
       THEN Exit(1) /\ sent' = log /\ UNCHANGED pageUid
       ELSE StartBlocks(QueryPageUidResult(outcome), log)
  /\ UNCHANGED <<script, env, options, uniqueTitles, contentLines, cursor, results>>

\* results after the awaited createBlock for content came to outcome
CreateBlockResults(res, content, outcome) ==
  IF outcome.kind = "fulfilled"
  THEN [res EXCEPT !.written = Append(@, content)]
  ELSE [res EXCEPT !.failed =
          Append(@, [item |-> content,
                     error |-> IF outcome.message # <<>> THEN outcome.message
                               ELSE <<"Unknown error">>])]

\* the awaited createBlock of the loop settles: the line is recorded, and
\* the loop issues the next request or main prints the summary and ends
CreateBlockSettles ==
  /\ script = "write-content"
  /\ spc = "create-block"
  /\ \E outcome \in WriteOutcomes :
       IF Dies(outcome)
       THEN /\ Die(outcome)
            /\ sent' = Answered(sent, outcome)
            /\ UNCHANGED <<cursor, results>>
       ELSE LET after == CreateBlockResults(results, contentLines[cursor], outcome) IN
            /\ results' = after
            /\ cursor' = cursor + 1
            /\ IF LoopGoesOn(outcome, cursor, contentLines)
               THEN /\ sent' = Append(Answered(sent, outcome),
                                      Request("create-block", "", pageUid, contentLines[cursor + 1]))
                    /\ UNCHANGED <<spc, exitStatus>>
               ELSE /\ sent' = Answered(sent, outcome)
                    /\ Exit(SummaryExit(after))
  /\ UNCHANGED <<script, env, options, uniqueTitles, contentLines, pageUid>>

\* what the service does with a create-block it answered with 200: order
\* 'last' puts the block after the blocks of the page
ServiceApply(page, r) ==
  IF r.action = "create-block" /\ r.answer.kind = "fulfilled"
  THEN IF r.order = "last" THEN Append(page, r.string) ELSE <<r.string>> \o page
  ELSE page

\* the blocks of a page after the requests of log, when no other client writes
RECURSIVE PageAfter(_, _)
PageAfter(page, log) ==
  IF log = <<>> THEN page ELSE PageAfter(ServiceApply(page, Head(log)), Tail(log))

\* the blocks the target page may have before the run
InitialPages == {<<>>, <<"old">>}

InitScripts ==
  /\ script \in Scripts
  /\ env \in BOOLEAN
  /\ options \in (IF script = "create-pages" THEN CreateOptions ELSE WriteOptions)
  /\ uniqueTitles = <<>>
  /\ contentLines = <<>>
  /\ pageUid = ""
  /\ cursor = 1
  /\ results = NoResults
  /\ sent = <<>>
  /\ spc = "main"
  /\ exitStatus = 0
  /\ TreeIdle
  /\ SendIdle
  /\ TimeIdle
  /\ WorldIdle

NextScripts ==
  \/ CreatePagesMain /\ UNCHANGED besidesScript
  \/ MakeRoamRequestSettles /\ UNCHANGED besidesScript
  \/ WriteContentMain /\ UNCHANGED besidesScript
  \/ QueryPageUidSettles /\ UNCHANGED besidesScript
  \/ CreatePageSettles /\ UNCHANGED besidesScript
  \/ RequeryPageUidSettles /\ UNCHANGED besidesScript
  \/ CreateBlockSettles /\ UNCHANGED besidesScript

SpecScripts == InitScripts /\ [][NextScripts]_vars


(***************************************************************************)
(* getTodayRoamTitle of write-content.js, called on any day                *)
(***************************************************************************)
\* const months = [...]
Months ==
  <<"January", "February", "March", "April", "May", "June",
    "July", "August", "September", "October", "November", "December">>

\* the dates new Date() can give in a common year and in a leap year;
\* getMonth() counts from 0
Years == {2026, 2028}
DaysInMonth(m, y) ==
  IF m = 1 THEN (IF y % 4 = 0 THEN 29 ELSE 28)
  ELSE IF m \in {3, 5, 8, 10} THEN 30 ELSE 31
Dates ==
  {d \in [month : 0..11, day : 1..31, year : Years] : d.day <= DaysInMonth(d.month, d.year)}

\* a suffix taken from the last digit alone
GetOrdinalSuffixLastDigit(day) ==
  IF day % 10 = 1 THEN "st"
  ELSE IF day % 10 = 2 THEN "nd"
  ELSE IF day % 10 = 3 THEN "rd"
  ELSE "th"

\* getOrdinalSuffix(day)
GetOrdinalSuffix(day) ==
  IF day >= 11 /\ day <= 13 THEN "th"
  ELSE IF day % 10 = 1 THEN "st"
  ELSE IF day % 10 = 2 THEN "nd"
  ELSE IF day % 10 = 3 THEN "rd"
  ELSE "th"

\* `${month} ${day}${suffix}, ${year}`, by its parts
GetTodayRoamTitle(date) ==
  [month |-> Months[date.month + 1], day |-> date.day,
   suffix |-> GetOrdinalSuffix(date.day), year |-> date.year]

CallGetTodayRoamTitle ==
  /\ roamTitle = NoTitle
  /\ roamTitle' = GetTodayRoamTitle(today)
  /\ UNCHANGED <<today, pageInGraph>>

InitDate ==
  /\ today \in Dates
  /\ roamTitle = NoTitle
  /\ pageInGraph = FALSE
  /\ TreeIdle
  /\ SendIdle
  /\ TimeIdle
  /\ ScriptIdle

NextDate == CallGetTodayRoamTitle /\ UNCHANGED <<treeVars, sendVars, timeVars, scriptVars>>

SpecDate == InitDate /\ [][NextDate]_vars


(***************************************************************************)
(* write-content.js against a graph that another client writes to: the    *)
(* service answers a lookup with the uid of the page when the page is in   *)
(* the graph, creates a page that is not there, and refuses to create a    *)
(* page that is.                                                           *)
(***************************************************************************)
ServiceQueryAnswer == Resolved(IF pageInGraph THEN <<FoundUid>> ELSE <<>>)
ServiceCreatePageAnswer ==
  IF pageInGraph THEN HttpFailure(400, BodyJsonExists) ELSE Resolved(<<>>)

\* the answer the request that was waiting has got in this step
AnswerGiven == sent'[Len(sent)].answer

besidesRace == <<treeVars, sendVars, timeVars, today, roamTitle>>

RaceMain == WriteContentMain /\ UNCHANGED pageInGraph /\ UNCHANGED besidesRace
RaceQueryPageUid ==
  /\ QueryPageUidSettles
  /\ AnswerGiven = ServiceQueryAnswer
  /\ UNCHANGED pageInGraph
  /\ UNCHANGED besidesRace
RaceCreatePage ==
  /\ CreatePageSettles
  /\ AnswerGiven = ServiceCreatePageAnswer
  /\ pageInGraph' = TRUE
  /\ UNCHANGED besidesRace
RaceRequeryPageUid ==
  /\ RequeryPageUidSettles
  /\ AnswerGiven = ServiceQueryAnswer
  /\ UNCHANGED pageInGraph
  /\ UNCHANGED besidesRace
RaceCreateBlock ==
  /\ CreateBlockSettles
  /\ AnswerGiven \in {Resolved(<<>>), ErrorFailure("Request timeout")}
  /\ UNCHANGED pageInGraph
  /\ UNCHANGED besidesRace

\* another client of the graph creates the page while ensurePageAndGetUid runs
OtherClientCreatesPage ==
  /\ spc \in {"query", "create-page", "requery"}
  /\ ~pageInGraph
  /\ pageInGraph' = TRUE
  /\ UNCHANGED <<scriptVars, besidesRace>>

InitRace ==
  /\ script = "write-content"
  /\ env \in BOOLEAN
  /\ options \in WriteOptions
  /\ uniqueTitles = <<>>
  /\ contentLines = <<>>
  /\ pageUid = ""
  /\ cursor = 1
  /\ results = NoResults
  /\ sent = <<>>
  /\ spc = "main"
  /\ exitStatus = 0
  /\ pageInGraph \in BOOLEAN
  /\ today = [month |-> 10, day |-> 3, year |-> 2026]
  /\ roamTitle = NoTitle
  /\ TreeIdle
  /\ SendIdle
  /\ TimeIdle

NextRace ==
  \/ RaceMain
  \/ RaceQueryPageUid
  \/ RaceCreatePage
  \/ RaceRequeryPageUid
  \/ RaceCreateBlock
  \/ OtherClientCreatesPage

SpecRace == InitRace /\ [][NextRace]_vars


(***************************************************************************)
(* Properties of the block-tree reader (checked under SpecTree)            *)
(***************************************************************************)
RECURSIVE SortedAtEveryLevel(_)
SortedAtEveryLevel(blocks) ==
  /\ IsSortedByOrder(blocks)
  /\ \A i \in DOMAIN blocks : SortedAtEveryLevel(blocks[i].children)

\* the number of levels of nesting of a sequence of nodes
RECURSIVE Levels(_)
Levels(blocks) ==
  IF blocks = <<>> THEN 0
  ELSE 1 + (CHOOSE m \in {Levels(blocks[i].children) : i \in DOMAIN blocks} :
              \A i \in DOMAIN blocks : Levels(blocks[i].children) <= m)

\* C1: whatever sequence the remote service returns the rows in, the
\* siblings of every level of the tree buildBlockTree builds (the returned
\* tree, and the lists every waiting activation holds) are in ascending
\* order of `order`.
C1_SiblingsSortedByOrder ==
  /\ result.kind = "ok" => SortedAtEveryLevel(result.blocks)
  /\ \A k \in DOMAIN stack :
       /\ IsSortedByOrder(stack[k].children)
       /\ SortedAtEveryLevel(stack[k].blocks)

\* a finished traversal whose first fetch was answered out of order and
\* whose tree has two siblings of a different order below a sorted parent
C1_Witness ==
  /\ tpc = "done"
  /\ Len(fetchLog) >= 2
  /\ ~fetchLog[1].inOrder
  /\ ~fetchLog[2].inOrder
  /\ Len(result.blocks) = 2
  /\ result.blocks[1].order < result.blocks[2].order
  /\ Len(result.blocks[1].children) = 2

\* C2: the returned tree never has more than maxDepth levels (so the nodes
\* of level maxDepth have no children, and the call is no error for it),
\* and when every fetch returned exactly one child (a chain at least as
\* deep as maxDepth) it has exactly maxDepth levels.
C2_DepthNeverExceedsMaxDepth ==
  tpc = "done" =>
    /\ result.kind = "ok"
    /\ Levels(result.blocks) <= maxDepth
    /\ (\A k \in DOMAIN fetchLog : fetchLog[k].rows = 1) => Levels(result.blocks) = maxDepth

\* a chain read with maxDepth = 3: three fetches of one row each, three levels
C2_Witness ==
  /\ tpc = "done"
  /\ maxDepth = 3
  /\ Len(fetchLog) = 3
  /\ \A k \in DOMAIN fetchLog : fetchLog[k].rows = 1
  /\ Levels(result.blocks) = 3
  /\ result.blocks[1].children[1].children[1].children = <<>>

\* C3: with maxDepth = 0 no fetchChildren request is ever issued, the call
\* cannot fail, and what it returns is the empty sequence.
C3_MaxDepthZeroReturnsEmpty ==
  maxDepth = 0 =>
    /\ fetchLog = <<>>
    /\ tpc \in {"init", "done"}
    /\ tpc = "done" => result = [kind |-> "ok", blocks |-> <<>>]

C3_Witness ==
  /\ maxDepth = 0
  /\ tpc = "done"
  /\ output = [kind |-> "page", blocks |-> <<>>, exit |-> 0]

\* C4: once a fetchChildren of the traversal has failed, the call has
\* failed with that error: the caller holds the error, never a tree, and
\* readPage writes no page.
C4_FetchFailureFailsWholeCall ==
  /\ failures # <<>> =>
       /\ tpc = "failed"
       /\ result = [kind |-> "error", error |-> failures[1]]
       /\ output.kind \in {"none", "fatal"}
       /\ output.kind = "fatal" => output.error = failures[1]
  /\ result.kind = "ok" => failures = <<>>

\* the fetches for the root and for a child succeeded, the fetch for a
\* grandchild failed while a sibling was still to be read, and main
\* reported the error
C4_Witness ==
  /\ tpc = "failed"
  /\ Len(fetchLog) = 3
  /\ fetchLog[3].depth = 2
  /\ fetchLog[3].answer = "error"
  /\ fetchLog[1].rows = 2
  /\ fetchLog[2].answer = "rows"
  /\ Len(abandoned) = 3
  /\ output.kind = "fatal"

\* C5: the step in which a fetchChildren fails, and every step after it,
\* issues no fetchChildren request and leaves none in flight, and the
\* caller holds the first error.
C5_NoFetchAfterFirstFailure ==
  [][failures' # <<>> =>
       /\ Len(fetchLog') = Len(fetchLog)
       /\ InFlight' = {}
       /\ result' = [kind |-> "error", error |-> failures'[1]]]_vars

\* the traversal failed while a sibling and a subtree were still to be fetched
C5_Witness ==
  /\ tpc = "failed"
  /\ Len(failures) = 1
  /\ Len(abandoned) = 2
  /\ abandoned[1].i < Len(abandoned[1].children)
  /\ InFlight = {}

(***************************************************************************)
(* Properties of the request helper (checked under SpecSend)               *)
(***************************************************************************)
\* the first response was a redirect that was followed, and no 'timeout'
\* or 'error' event has hit the first request since
FirstHopRedirectedQuietly == req[1].st = "redirected" /\ Len(issued) = 2

\* C6: when the first response was a followed redirect and the second
\* request was answered with 200 and a JSON body, the promise is fulfilled
\* with statusCode 200 and the parsed body of the second response.
C6_RedirectThenOkFulfils ==
  (/\ FirstHopRedirectedQuietly
   /\ req[2].st = "ended"
   /\ req[2].status = 200
   /\ JsonParse(req[2].data).ok)
  => /\ promise = Fulfilled([statusCode |-> 200, data |-> JsonParse(req[2].data).value])
     /\ uncaught = "none"

\* 301 with Location https://host2/path2, then 200 with {"result":[]}
C6_Witness ==
  /\ req[1].status = 301
  /\ req[1].st = "redirected"
  /\ Len(issued) = 2
  /\ issued[2].hostname = "host2"
  /\ issued[2].path = "/path2"
  /\ req[2].st = "ended"
  /\ req[2].status = 200
  /\ req[2].data = <<"{", "\"result\":[]", "}">>
  /\ promise.state = "fulfilled"
  /\ promise.value.data.result = <<>>

\* C7: a call makes at most two requests, and a second hop that ends with
\* a status other than 200 (a redirect status included) rejects the promise
\* with that status code and the raw body of the second response.
C7_OnlyOneRedirectHop ==
  /\ Len(issued) <= 2
  /\ (/\ FirstHopRedirectedQuietly
      /\ req[2].st = "ended"
      /\ req[2].status # 200)
     => /\ promise = Rejected([statusCode |-> req[2].status, message |-> req[2].data])
        /\ Len(issued) = 2

\* the chain 301, 301: the second 301 is the final response
C7_Witness ==
  /\ req[1].status = 301
  /\ req[1].st = "redirected"
  /\ req[2].st = "ended"
  /\ req[2].status = 301
  /\ req[2].data = <<"x">>
  /\ promise = Rejected([statusCode |-> 301, message |-> <<"x">>])
  /\ Len(issued) = 2

\* C8: a final response with status 200 and an empty body fulfils the
\* promise with statusCode 200 and the empty object, on the first hop and on
\* the redirect hop, and no exception escapes.
C8_EmptyBodyIsEmptyObject ==
  \A h \in Hops :
    (/\ req[h].st = "ended"
     /\ req[h].status = 200
     /\ req[h].data = <<>>
     /\ h = 2 => FirstHopRedirectedQuietly)
    => /\ promise = Fulfilled([statusCode |-> 200, data |-> EmptyObject])
       /\ uncaught = "none"

\* the redirect hop ended with 200 and no body
C8_Witness ==
  /\ req[1].st = "redirected"
  /\ req[2].st = "ended"
  /\ req[2].status = 200
  /\ req[2].data = <<>>
  /\ calls = <<Fulfilled([statusCode |-> 200, data |-> EmptyObject])>>

\* C9: a final response with status 200 and a non-empty body that is no
\* JSON text rejects the promise, so that the caller of the helper gets a
\* failure it can handle.
C9_UnparsableBodyRejects ==
  \A h \in Hops :
    (/\ req[h].st = "ended"
     /\ req[h].status = 200
     /\ req[h].data # <<>>
     /\ ~JsonParse(req[h].data).ok
     /\ h = 2 => FirstHopRedirectedQuietly)
    => /\ promise.state = "rejected"
       /\ uncaught = "none"

\* C10: when a request got no response before its 'timeout' event, and no
\* 'error' event of the network hit the call, the request is destroyed and
\* the promise is rejected with Error('Request timeout'), which carries no
\* status code, also after the 'error' event the destroy provokes.
C10_TimeoutIsNotTransport ==
  (/\ \E h \in Hops : req[h].st = "destroyed" /\ req[h].status = NoStatus
   /\ \A h \in Hops : req[h].st # "errored")
  => /\ promise = Rejected(TimeoutError)
     /\ "statusCode" \notin DOMAIN promise.reason

\* the first request timed out unanswered, and the socket hang up error
\* its destroy provoked has called reject as well
C10_Witness ==
  /\ req[1].st = "destroyed"
  /\ req[1].status = NoStatus
  /\ hangUp = {}
  /\ calls = <<Rejected(TimeoutError), Rejected(TransportError(SocketHangUp))>>
  /\ promise = Rejected(TimeoutError)

\* C11: a final response whose status is not 200 (4xx, 5xx, a 2xx other
\* than 200, a 3xx that is not followed) rejects the promise with exactly
\* that status code and the body as it was received, unparsed, also when the
\* body is a JSON text.
C11_NonOkStatusRejectsWithRawBody ==
  \A h \in Hops :
    (/\ req[h].st = "ended"
     /\ req[h].status # 200
     /\ h = 2 => FirstHopRedirectedQuietly)
    => /\ promise = Rejected([statusCode |-> req[h].status, message |-> req[h].data])
       /\ uncaught = "none"

\* the first response was a 404 whose body is the JSON text {"result":[]}
C11_Witness ==
  /\ req[1].st = "ended"
  /\ req[1].status = 404
  /\ req[1].data = <<"{", "\"result\":[]", "}">>
  /\ JsonParse(req[1].data).ok
  /\ calls = <<Rejected([statusCode |-> 404, message |-> req[1].data])>>
  /\ Len(issued) = 1

\* C12: when the connection of a request fails or is dropped, before any
\* response or after the headers while the body is still arriving, on the
\* first hop or on the redirect hop, and nothing else ended the call, the
\* promise is rejected with the error of the connection, which carries no
\* status code.
C12_ConnectionFailureRejectsTransport ==
  (/\ \E h \in Hops : req[h].st \in {"errored", "aborted"}
   /\ \A h \in Hops : req[h].st \notin {"destroyed", "ended"}
   /\ uncaught = "none")
  => /\ promise.state = "rejected"
     /\ "statusCode" \notin DOMAIN promise.reason
     /\ promise.reason.message \in TransportCauses

\* a request of the call has ended in a timeout, in an error of the
\* connection, or in a final response whose status is not 200
RequestFailed(h) ==
  \/ req[h].st \in {"destroyed", "errored"}
  \/ req[h].st = "ended" /\ req[h].status # 200

\* C13: the helper never retries: a call issues at most two requests, the
\* second one only as the redirect hop after a 3xx response to the first,
\* and once a request of the call has ended in a timeout, a transport error
\* or a final status that is not 200, no further request is issued.
C13_NeverRetries ==
  [][/\ Len(issued') <= 2
     /\ issued' # issued =>
          /\ \A h \in Hops : ~RequestFailed(h)
          /\ Len(issued) = 1 => req'[1].status \in 300..399]_vars

\* the redirect hop timed out: two requests were issued, the call failed
\* with the timeout and the rejected call is over
C13_Witness ==
  /\ Len(issued) = 2
  /\ req[1].st = "redirected"
  /\ req[2].st = "destroyed"
  /\ hangUp = {}
  /\ promise = Rejected(TimeoutError)

\* C14: the redirect hop is a POST to the host, the port (443 when the URL
\* names none) and the path with query of the Location URL of the first
\* response, with the headers, the payload and the timeout of the first
\* request; nothing else of the request changes.
C14_RedirectHopRepeatsRequest ==
  Len(issued) = 2 =>
    LET first == issued[1]
        hop == issued[2]
        loc == req[1].location
    IN /\ loc.kind = "absolute"
       /\ hop.method = "POST"
       /\ hop.method = first.method
       /\ hop.hostname = loc.hostname
       /\ hop.port = (IF loc.port = "" THEN "443" ELSE loc.port)
       /\ hop.path = loc.pathname \o loc.search
       /\ hop.headers = first.headers
       /\ hop.payload = first.payload
       /\ hop.timeout = first.timeout
       /\ DOMAIN hop = DOMAIN first

\* the first response was a 308 to https://host3:8443/p?a=1 and the redirect
\* hop has been answered
C14_Witness ==
  /\ Len(issued) = 2
  /\ req[1].status = 308
  /\ req[1].location.kind = "absolute"
  /\ req[1].location.hostname = "host3"
  /\ issued[2].hostname = "host3"
  /\ issued[2].port = "8443"
  /\ issued[2].path = "/p?a=1"
  /\ issued[2].payload = Payload
  /\ req[2].st = "ended"

\* C15: the timeout bounds the whole of a call that is not redirected:
\* counted from the start of the call, across connecting, writing and
\* reading, a call whose response is not complete when the timeout has
\* passed is no longer in progress (it has failed with the timeout); the
\* arrival of the headers or of chunks of the body does not extend it.
C15_TimeoutBoundsWholeCall ==
  (InProgress /\ uncaught = "none") => now <= TimeoutTicks

\* C16: buildBlockTree fetches strictly one after the other: at most one
\* fetchChildren is in flight, it is the one the innermost activation
\* awaits, and while the fetch for a child (or for one of its descendants)
\* is in flight, the subtrees of all its earlier siblings are finished
\* nodes of the parent's list and none of its later siblings has been
\* started.
C16_FetchesAreSequential ==
  /\ Cardinality(InFlight) <= 1
  /\ InFlight # {} =>
       /\ InFlight = {Len(fetchLog)}
       /\ tpc = "fetching"
       /\ stack # <<>>
       /\ fetchLog[Len(fetchLog)].uid = Top(stack).parentUid
       /\ fetchLog[Len(fetchLog)].depth = Top(stack).depth
       /\ Top(stack).children = <<>>
       /\ Top(stack).blocks = <<>>
  /\ \A k \in 1..(Len(stack) - 1) :
       LET f == stack[k] IN
       /\ f.i \in DOMAIN f.children
       /\ stack[k + 1].parentUid = f.children[f.i].uid
       /\ stack[k + 1].depth = f.depth + 1
       /\ Len(f.blocks) = f.i - 1
       /\ \A j \in 1..(f.i - 1) : f.blocks[j].uid = f.children[j].uid

\* the fetch for the second child of the page is in flight, after the
\* subtree of the first child was fetched and its node built
C16_Witness ==
  /\ tpc = "fetching"
  /\ Len(stack) = 2
  /\ stack[1].i = 2
  /\ Len(stack[1].blocks) = 1
  /\ Len(fetchLog) = 3
  /\ fetchLog[2].answer = "rows"
  /\ fetchLog[2].depth = 1
  /\ InFlight = {3}

\* the most fetches a traversal to depth md can make when no fetch returns
\* more rows than there are blocks in UIDs
RECURSIVE FetchBudget(_)
FetchBudget(md) == IF md = 0 THEN 0 ELSE 1 + Cardinality(UIDs) * FetchBudget(md - 1)

\* C17: buildBlockTree terminates whatever the remote structure is, cyclic
\* ones included: no fetch is made at depth maxDepth or deeper, the chain of
\* waiting activations is never longer than maxDepth, the number of fetches
\* of a traversal never exceeds the finite budget maxDepth and the
\* branching allow, and a traversal that is not over always waits on a
\* fetch.
C17_TraversalIsBounded ==
  /\ \A k \in DOMAIN fetchLog : fetchLog[k].depth < maxDepth
  /\ Len(stack) <= maxDepth
  /\ \A k \in DOMAIN stack : stack[k].depth = k - 1
  /\ Len(fetchLog) <= FetchBudget(maxDepth)
  /\ tpc = "fetching" => InFlight # {}
  /\ tpc \in {"done", "failed", "crashed"} => stack = <<>> /\ InFlight = {}

\* a block that is its own child was followed down to maxDepth = 3 and
\* the traversal returned a tree of three levels
C17_Witness ==
  /\ tpc = "done"
  /\ maxDepth = 3
  /\ Len(fetchLog) = 3
  /\ fetchLog[2].uid = fetchLog[3].uid
  /\ fetchLog[2].depth = 1
  /\ fetchLog[3].depth = 2
  /\ fetchLog[3].rows = 1
  /\ result.kind = "ok"
  /\ Levels(result.blocks) = 3
  /\ result.blocks[1].uid = result.blocks[1].children[1].uid
  /\ result.blocks[1].children[1].uid = result.blocks[1].children[1].children[1].uid

(***************************************************************************)
(* Properties of the scripts (checked under SpecScripts)                   *)
(***************************************************************************)
\* input that main accepts: titles for create-pages; one of --page and
\* --today, and content, for write-content
ValidInput ==
  IF script = "create-pages" THEN options.titles # <<>>
  ELSE /\ (options.page # NoPage) # options.today
       /\ options.content # <<>>

\* C18: with --dry-run and valid input, create-pages and write-content
\* issue no request at all (no query, no create-page, no create-block) and
\* end with exit status 0, whether the two environment variables are set or
\* not.
C18_DryRunSendsNothing ==
  (script \in Scripts /\ options.dryRun /\ ValidInput) =>
    /\ sent = <<>>
    /\ spc \in {"main", "exited"}
    /\ spc = "exited" => exitStatus = 0

\* a dry run of write-content without the environment variables has ended
C18_Witness ==
  /\ script = "write-content"
  /\ options.dryRun
  /\ ~env
  /\ contentLines # <<>>
  /\ spc = "exited"
  /\ exitStatus = 0
  /\ sent = <<>>

\* the position at which title t first occurs in the input
FirstOccurrence(t) ==
  CHOOSE i \in DOMAIN options.titles :
    /\ options.titles[i] = t
    /\ \A j \in 1..(i - 1) : options.titles[j] # t

\* C19: create-pages issues at most one create-page request per distinct
\* title of its input, and the requests follow the order in which the
\* titles first occur in the input, none being passed over.
C19_OneRequestPerDistinctTitle ==
  script = "create-pages" =>
    /\ \A k \in DOMAIN sent :
         /\ sent[k].action = "create-page"
         /\ \E i \in DOMAIN options.titles : options.titles[i] = sent[k].title
    /\ \A j, k \in DOMAIN sent :
         j < k => /\ sent[j].title # sent[k].title
                  /\ FirstOccurrence(sent[j].title) < FirstOccurrence(sent[k].title)
    /\ \A k \in DOMAIN sent :
         \A i \in 1..(FirstOccurrence(sent[k].title) - 1) :
           \E j \in 1..(k - 1) : sent[j].title = options.titles[i]

\* the titles B, A, B were given and the run has ended after a request for
\* B and a request for A
C19_Witness ==
  /\ script = "create-pages"
  /\ options.titles = <<"B", "A", "B">>
  /\ spc = "exited"
  /\ Len(sent) = 2
  /\ sent[1].title = "B"
  /\ sent[2].title = "A"
  /\ sent[2].answer.kind = "fulfilled"

\* C20: in create-pages, a create-page request that failed with an HTTP
\* failure whose raw body contains "already exists" has its title in the
\* skipped list and not in the failed list, whether the body is JSON or
\* plain text.
C20_AlreadyExistsIsSkipped ==
  script = "create-pages" =>
    \A k \in DOMAIN sent :
      (/\ sent[k].answer.kind = "http"
       /\ IncludesAlreadyExists(sent[k].answer.message))
      => /\ \E i \in DOMAIN results.skipped : results.skipped[i] = sent[k].title
         /\ \A i \in DOMAIN results.failed : results.failed[i].item # sent[k].title

\* the requests of the bulk loop, the items it goes over, and the item a
\* request is for
IsCreateBlock(r) == r.action = "create-block"
LoopRequests == IF script = "create-pages" THEN sent ELSE SelectSeq(sent, IsCreateBlock)
LoopItems == IF script = "create-pages" THEN uniqueTitles ELSE contentLines
ItemOf(r) == IF script = "create-pages" THEN r.title ELSE r.string

\* no request of the loop ended the process (an exception that escaped the
\* helper) or was left unsettled
LoopRequestsSettle ==
  \A k \in DOMAIN LoopRequests :
    LoopRequests[k].answer.kind \in {"awaiting", "fulfilled", "http", "error"}

C22_EnsurePageBeforeBlocks ==
  script = "write-content" =>
    /\ sent # <<>> => sent[1].action = "q" /\ sent[1].title = PageTitle
    /\ \A k \in DOMAIN sent :
         /\ sent[k].action = "create-page" =>
              /\ k = 2
              /\ sent[1].answer = Resolved(<<>>)
              /\ sent[k].title = PageTitle
              /\ (sent[k].answer.kind = "fulfilled" /\ spc # "exited") => Len(sent) >= 3
              /\ Len(sent) >= 3 => /\ sent[k].answer.kind = "fulfilled"
                                   /\ sent[3].action = "q"
                                   /\ sent[3].title = PageTitle
         /\ sent[k].action = "q" => k \in {1, 3}
         /\ sent[k].action = "create-block" =>
              \E j \in 1..(k - 1) :
                /\ sent[j].action = "q"
                /\ sent[j].answer.kind = "fulfilled"
                /\ sent[j].answer.result # <<>>
                /\ sent[k].parentUid = sent[j].answer.result[1]
                /\ \A i \in (j + 1)..k : sent[i].action = "create-block"
    /\ (Len(sent) >= 3 /\ sent[3].action = "q" /\ sent[3].answer = Resolved(<<>>)) =>
         /\ Len(sent) = 3
         /\ spc = "exited"
         /\ exitStatus = 1

\* the page was not found, was created, was found by the second lookup,
\* and the first block is being written under its uid
C22_Witness ==
  /\ script = "write-content"
  /\ Len(sent) = 4
  /\ sent[1].answer = Resolved(<<>>)
  /\ sent[2].action = "create-page"
  /\ sent[2].answer.kind = "fulfilled"
  /\ sent[3].answer = Resolved(<<FoundUid>>)
  /\ sent[4].action = "create-block"
  /\ sent[4].parentUid = FoundUid
  /\ pageUid = FoundUid

\* C23: only the statuses 301, 302 and 308 of the first response cause a
\* second request; a first response with any other status (300, 303, 304
\* and 307 among them) is read and used: 200 fulfils the promise, any other
\* status rejects it with that status and the body, and no request goes to
\* the Location the response may carry.
C23_OnlyThreeStatusesAreFollowed ==
  /\ Len(issued) = 2 => req[1].status \in {301, 302, 308}
  /\ (req[1].status \notin {NoStatus, 301, 302, 308}) =>
       /\ Len(issued) = 1
       /\ req[1].st # "redirected"
       /\ req[2].st = "none"
       /\ (req[1].st = "ended" /\ uncaught = "none") =>
            IF req[1].status = 200
            THEN /\ promise.state = "fulfilled"
                 /\ promise.value.statusCode = 200
            ELSE promise = Rejected([statusCode |-> req[1].status, message |-> req[1].data])

\* the first response was a 307 with a body; it was read to its end and
\* the call failed with status 307 after one request
C23_Witness ==
  /\ req[1].status = 307
  /\ req[1].st = "ended"
  /\ req[1].data # <<>>
  /\ Len(issued) = 1
  /\ req[2].st = "none"
  /\ promise = Rejected([statusCode |-> 307, message |-> req[1].data])

\* C24: write-content makes one create-block request per content line, in
\* the order of the lines, each with order 'last' under the uid of the
\* target page, and request k+1 only once request k is settled; so when all
\* of them succeed and nobody else writes to the page, the page ends with
\* the new blocks in the order of the lines.
C24_OneBlockPerLineInOrder ==
  script = "write-content" =>
    /\ Len(LoopRequests) <= Len(contentLines)
    /\ \A k \in DOMAIN LoopRequests :
         /\ LoopRequests[k].string = contentLines[k]
         /\ LoopRequests[k].order = "last"
         /\ pageUid # ""
         /\ LoopRequests[k].parentUid = pageUid
         /\ k < Len(LoopRequests) => LoopRequests[k].answer.kind \notin {"awaiting", "never"}
    /\ (spc = "exited" /\ LoopRequests # <<>> /\ LoopRequestsSettle) =>
         Len(LoopRequests) = Len(contentLines)
    /\ (/\ spc = "exited"
        /\ LoopRequests # <<>>
        /\ \A k \in DOMAIN LoopRequests : LoopRequests[k].answer.kind = "fulfilled") =>
         /\ results.written = contentLines
         /\ \A page \in InitialPages : PageAfter(page, sent) = page \o contentLines

\* the lines x and y were written, in this order, and the run has ended
C24_Witness ==
  /\ script = "write-content"
  /\ contentLines = <<"x", "y">>
  /\ spc = "exited"
  /\ exitStatus = 0
  /\ Len(LoopRequests) = 2
  /\ results.written = <<"x", "y">>
  /\ PageAfter(<<"old">>, sent) = <<"old", "x", "y">>

\* the loop has run to its end and main has printed the summary
AfterLoop ==
  /\ spc = "exited"
  /\ LoopRequests # <<>>
  /\ Len(LoopRequests) = Len(LoopItems)
  /\ \A k \in DOMAIN LoopRequests :
       LoopRequests[k].answer.kind \in {"fulfilled", "http", "error"}

\* C25: after the loop, create-pages ends with status 1 exactly when a
\* title was recorded as failed (titles that were only skipped leave the
\* status 0), and write-content ends with status 1 exactly when a block
\* failed.
C25_ExitOneIffFailed ==
  (script \in Scripts /\ AfterLoop) =>
    /\ exitStatus \in {0, 1}
    /\ exitStatus = 1 <=> results.failed # <<>>
    /\ exitStatus = 1 <=>
         \E k \in DOMAIN LoopRequests :
           /\ LoopRequests[k].answer.kind \in {"http", "error"}
           /\ \A i \in DOMAIN results.skipped : results.skipped[i] # ItemOf(LoopRequests[k])

\* create-pages has ended with status 0 after one title was created and
\* the other skipped as already existing
C25_Witness ==
  /\ script = "create-pages"
  /\ AfterLoop
  /\ Len(results.created) = 1
  /\ Len(results.skipped) = 1
  /\ results.failed = <<>>
  /\ sent[2].answer.kind = "http"
  /\ exitStatus = 0

(***************************************************************************)
(* Properties of getTodayRoamTitle (checked under SpecDate)                *)
(***************************************************************************)
\* C26: for every day of the month d, the suffix is 'th' for 11, 12 and 13,
\* else 'st', 'nd', 'rd' for a day that ends in 1, 2, 3, and 'th' for every
\* other day, and the title getTodayRoamTitle returns is made of the name
\* of the month, d with this suffix, and the year.
C26_OrdinalSuffixOfEveryDay ==
  /\ \A d \in 1..31 :
       GetOrdinalSuffix(d) = (IF d \in {1, 21, 31} THEN "st"
                              ELSE IF d \in {2, 22} THEN "nd"
                              ELSE IF d \in {3, 23} THEN "rd"
                              ELSE "th")
  /\ roamTitle # NoTitle =>
       /\ roamTitle.day = today.day
       /\ roamTitle.year = today.year
       /\ roamTitle.month = Months[today.month + 1]
       /\ today.month = 0 <=> roamTitle.month = "January"
       /\ today.month = 1 <=> roamTitle.month = "February"
       /\ today.month = 11 <=> roamTitle.month = "December"
       /\ roamTitle.suffix = (IF today.day \in {1, 21, 31} THEN "st"
                              ELSE IF today.day \in {2, 22} THEN "nd"
                              ELSE IF today.day \in {3, 23} THEN "rd"
                              ELSE "th")

\* the title of February 12th, 2026 was made
C26_Witness ==
  /\ today = [month |-> 1, day |-> 12, year |-> 2026]
  /\ roamTitle = [month |-> "February", day |-> 12, suffix |-> "th", year |-> 2026]

(***************************************************************************)
(* Properties of the whole call of the request helper (under SpecSend)     *)
(***************************************************************************)
\* every request the call has issued has seen the last of its events: its
\* response ended or was cut off, it failed, it timed out, or (the first
\* request only) its response was a redirect and is left unread
AllRequestsDone ==
  /\ issued # <<>>
  /\ \A h \in 1..Len(issued) :
       \/ req[h].st \in {"ended", "errored", "destroyed", "aborted"}
       \/ h = 1 /\ req[h].st = "redirected"

\* C27: every call of the helper settles with one outcome: resolve and
\* reject take effect at most once, and once every request the call issued
\* has seen its end, an error or a timeout the promise is settled, also
\* after a redirect whose Location is missing or not an absolute URL, after
\* a 200 whose body is no JSON text, and after a connection dropped in the
\* middle of the body.
C27_EveryCallSettles ==
  /\ promise.state # "pending" => calls # <<>> /\ promise = calls[1]
  /\ AllRequestsDone => promise.state \in {"fulfilled", "rejected"}

\* C28: once the first response was a redirect and the second request is
\* issued, only the events of the second request settle the call: while the
\* second request is still waiting for its response or reading it, the
\* promise is pending, whatever happens on the first request.
C28_SecondHopAloneSettles ==
  (/\ Len(issued) = 2
   /\ req[2].st \in {"sent", "receiving"}
   /\ uncaught = "none")
  => promise = Pending

(***************************************************************************)
(* Properties of the lists of create-pages (under SpecScripts)             *)
(***************************************************************************)
ItemsOf(list) == {list[i] : i \in DOMAIN list}
FailedItems == {results.failed[i].item : i \in DOMAIN results.failed}

\* C29: in create-pages, at every point of the loop the lists created,
\* skipped and failed are pairwise disjoint and hold exactly the unique
\* titles the loop has dealt with so far, each once; when the loop has
\* ended their lengths add up to the number of unique titles.
C29_ListsPartitionProcessedTitles ==
  script = "create-pages" =>
    LET processed == {uniqueTitles[k] : k \in 1..(cursor - 1)}
        count == Len(results.created) + Len(results.skipped) + Len(results.failed)
    IN /\ cursor - 1 <= Len(uniqueTitles)
       /\ ItemsOf(results.created) \cup ItemsOf(results.skipped) \cup FailedItems = processed
       /\ ItemsOf(results.created) \cap ItemsOf(results.skipped) = {}
       /\ ItemsOf(results.created) \cap FailedItems = {}
       /\ ItemsOf(results.skipped) \cap FailedItems = {}
       /\ count = cursor - 1
       /\ count = Cardinality(processed)
       /\ AfterLoop => count = Len(uniqueTitles)

\* the loop has ended after one title was skipped and the other failed
C29_Witness ==
  /\ script = "create-pages"
  /\ AfterLoop
  /\ Len(uniqueTitles) = 2
  /\ Len(results.skipped) = 1
  /\ Len(results.failed) = 1
  /\ results.created = <<>>
  /\ results.skipped[1] # results.failed[1].item

(***************************************************************************)
(* Properties of write-content next to other clients (under SpecRace)      *)
(***************************************************************************)
\* ensurePageAndGetUid was called and has returned or thrown
EnsureFinished == sent # <<>> /\ spc \in {"create-block", "exited", "hung"}

\* C30: whenever the target page is in the graph by the time
\* ensurePageAndGetUid has finished, write-content has got the uid of the
\* page and has gone on to write the blocks, also when another client
\* created the page between the first lookup and the create-page request.
C30_ExistingPageIsUsed ==
  (script = "write-content" /\ EnsureFinished /\ pageInGraph) =>
    /\ pageUid = FoundUid
    /\ LoopRequests # <<>>

====
